---- MODULE Spec2Model ----
(***************************************************************************)
(* Episode orchestrator of NeuroBalance (src/App.tsx) with the PPO agent's *)
(* persistence (src/services/ppo.ts), the DQN agent with its replay buffer *)
(* (src/services/dqn.ts), the cart-pole environment (cartpole.ts) and the  *)
(* drag handlers of the canvas (src/components/SimulationCanvas.tsx).      *)
(*                                                                         *)
(* React state is split in the committed value (what the closures of the   *)
(* last render captured) and the updates queued by code that runs outside  *)
(* a React event handler (animation-frame callback, timer callback, the    *)
(* continuation of an await).  Those queued updates are committed by the   *)
(* Render action, a separate task of the browser's event loop.  A click    *)
(* handler runs with the committed closures and is followed at once by a   *)
(* commit of everything queued (React flushes discrete events              *)
(* synchronously).                                                         *)
(***************************************************************************)
EXTENDS Integers, Sequences, FiniteSets, TLC

\* ---- program constants ----
MAX_STEPS_PER_EPISODE == 500
SimSpeeds == {1, 5, 10, 50}
BATCH_SIZE == 64
BUFFER_SIZE == 50000
TARGET_UPDATE_FREQ == 10
TRAIN_STEPS == 5

\* cartpole.ts: x and the velocities are in hundredths, theta in tenths of a
\* degree, forces in halves, rewards in RewardUnit-ths
X_THRESHOLD == 240
FORCE_MAG == 20
MinDegrees == 700
MaxDegrees == 1390
Upright == 900
RewardUnit == (MaxDegrees - Upright) * X_THRESHOLD
EdgeDistance == 150

\* ---- bounds of the model ----
MaxEpLen == 2      \* Spec: the physics reports done by this step at the latest
MaxData == 2       \* transitions kept in trainingDataRef
HistoryLimit == 2  \* a maximum that rewardHistory would keep to
MaxPasses == 2     \* training passes pending or in flight
MaxAge == 2        \* episode tags older than this are merged
MaxIO == 1         \* save calls, and load calls, awaiting their storage requests
MaxCap == 2        \* SpecBuffer: largest capacity a ReplayBuffer is built with
MaxAdds == 4       \* SpecBuffer: add calls
MaxDraws == 3      \* Math.random() draws of one sample call
MaxBatch == 3      \* SpecBuffer: largest batchSize asked of sample
MaxBuf == 65       \* SpecDQN: transitions in the agent's buffer
MaxTrainCalls == 11 \* SpecDQN: train calls that train
MaxDecays == 920   \* SpecEpsilon: train calls that train
MaxPushes == 2     \* SpecCart: applyForce calls between two steps
MaxRatio == 20     \* SpecSurrogate: probability ratios up to this many tenths
MaxAdvantage == 3  \* SpecSurrogate: advantages of this size at most
MaxPPOCalls == 8   \* SpecPPO: train calls on one pair of networks
MaxQ == 1          \* SpecTarget: Q-values and rewards of this size at most

Names == {"m1"}
NoModel == "undefined"
NoAgent == [actor |-> "null", critic |-> "null"]
NoUpd == <<>>
Upd(v) == <<v>>
Keys == {"none", "ArrowLeft", "ArrowRight"}

VARIABLES
  isPlaying, isTraining, isManualMode, trainingEnabled, simSpeed, currentModel,
  pending,          \* state updates queued outside event handlers, not yet rendered
  requestRef,       \* TRUE: an animation frame is requested and not cancelled
  agentRef,         \* NoAgent or the networks of the current PPOAgent
  stepCountRef,
  episodeRewardRef, \* "zero" or "nonzero"
  trainingDataRef,  \* sequence of recorded transitions
  passes,           \* training passes: timer pending or agent.train awaiting
  loads,            \* handleLoadModel calls awaiting agent.load
  saves,            \* handleSaveModel calls awaiting agent.save
  store,            \* IndexedDB: which records exist for each name
  dqn,              \* the networks of a DQNAgent
  models,           \* the names ModelList shows
  lastOp,           \* history: the operation that ran last
  envSteps,         \* history: CartPole.step calls made by the last operation
  usedKey,          \* history: the last operation took an action from a key
  ioDone,           \* history: a save/load finished and play was not pressed since
  deletes,          \* handleDelete calls of ModelList awaiting their requests
  env,              \* CartPole: state and externalForce
  canvas,           \* SimulationCanvas: interactionEnabled, isDraggingRef, lastXRef
  stepOut,          \* history: what the last operation did if it was a step
                    \* (its force, reward, done) or a reset (the force it dropped)
  pushes,           \* history: applyForce amounts since the last step or reset
  replayBuffer,     \* ReplayBuffer: buffer and maxSize
  added,            \* history: every transition passed to add, in order
  lastSample,       \* history: what the last sample call returned
  epsilon,          \* DQNAgent.epsilon, in millionths
  trainCalls,       \* DQNAgent.trainCalls
  snapshots,        \* history: every value the online parameters have had
  rewardHistory,    \* length of rewardHistory once the queued updates are applied
  transitions,      \* what the entries of trainingDataRef hold: state, nextState, done
  trail,            \* history: the steps of the last tick, in order
  ppo,              \* a PPOAgent: its actor and critic
  ppoCall,          \* the PPOAgent.train call under way
  calc              \* history: the last call of a numeric routine and its result

vars == <<isPlaying, isTraining, isManualMode, trainingEnabled, simSpeed,
          currentModel, pending, requestRef, agentRef, stepCountRef,
          episodeRewardRef, trainingDataRef, passes, loads, saves, store,
          dqn, models, lastOp, envSteps, usedKey, ioDone,
          deletes, env, canvas, stepOut, pushes, replayBuffer, added,
          lastSample, epsilon, trainCalls, snapshots,
          rewardHistory, transitions, trail, ppo, ppoCall, calc>>

\* the state of App, of the PPO agent and of the store
appVars == <<isPlaying, isTraining, isManualMode, trainingEnabled, simSpeed,
             currentModel, pending, requestRef, agentRef, stepCountRef,
             episodeRewardRef, trainingDataRef, passes, loads, saves, store,
             models, ioDone>>

delVars == <<deletes>>
cartVars == <<env, canvas, stepOut, pushes>>
bufVars == <<replayBuffer, added, lastSample>>
agentVars == <<epsilon, trainCalls, snapshots>>
detailVars == <<rewardHistory, transitions, trail>>
ppoVars == <<ppo, ppoCall>>
mathVars == <<calc>>

NoPending == [isPlaying |-> NoUpd, isTraining |-> NoUpd,
              trainingEnabled |-> NoUpd, currentModel |-> NoUpd,
              refresh |-> NoUpd]

NewAgent == [actor |-> "init", critic |-> "init"]

\* network parameters: where they came from and the training calls that
\* changed them since
Params(from) == [from |-> from, steps |-> 0]

\* createModel: a network with freshly initialised weights
CreateModel(tag) == Params(tag)

\* this.targetModel.setWeights(this.model.getWeights())
UpdateTargetModel(agent) == [agent EXCEPT !.targetModel = agent.model]

\* DQNAgent after construction: two networks are created, then the target
\* network gets the weights of the online one
NewDQN == UpdateTargetModel([model |-> CreateModel("init"),
                             targetModel |-> CreateModel("blank")])

\* epsilon is kept in millionths
Million == 1000000
EPSILON_START == Million
EPSILON_END == Million \div 100

\* CartPole after construction or reset with every Math.random() at 0.5;
\* x and the velocities are in hundredths, theta in tenths of a degree,
\* forces in halves
RestState == [x |-> 0, xDot |-> 0, theta |-> 0, thetaDot |-> 0]
NoStep == [action |-> "none", force |-> 0, reward |-> 0, done |-> FALSE]
NoCall == [phase |-> "idle"]
NoCalc == [op |-> "none"]
NoSample == [kind |-> "none", batchSize |-> 0, indices |-> <<>>, states |-> <<>>, actions |-> <<>>,
             rewards |-> <<>>, nextStates |-> <<>>, dones |-> <<>>]

\* a reset that leaves the accumulator alone
ResetKeepingForce(e, st) == [e EXCEPT !.state = st]

\* reset: a new state, and externalForce = 0
Reset(e, st) == [state |-> st, externalForce |-> 0]

\* value of a state variable after a commit: the last update queued wins
Apply(cur, queued, clicked) ==
  IF clicked # NoUpd THEN clicked[1] ELSE IF queued # NoUpd THEN queued[1] ELSE cur

\* useEffect on [isPlaying, isTraining, animate]: cancel, then request again
EffectRequests(playing, training) == playing /\ ~training

\* tf.io.listModels filtered on the actor records
ListModels(st) == {n \in Names : st[n].actor}

\* commit of the queued updates p, then of the handler's own updates u;
\* a changed refreshModelsTrigger remounts ModelList, which fetches the list
Commit(p, u) ==
  /\ isPlaying' = Apply(isPlaying, p.isPlaying, u.isPlaying)
  /\ isTraining' = Apply(isTraining, p.isTraining, u.isTraining)
  /\ trainingEnabled' = Apply(trainingEnabled, p.trainingEnabled, u.trainingEnabled)
  /\ currentModel' = Apply(currentModel, p.currentModel, u.currentModel)
  /\ requestRef' = EffectRequests(isPlaying', isTraining')
  /\ models' = IF p.refresh # NoUpd THEN ListModels(store) ELSE models
  /\ pending' = NoPending

\* the history variables; only the operations the properties name are told apart
Tracked == {"Tick", "TimerFire", "TrainDone", "TrainThrow", "TogglePlay", "ResetSim",
            "LoadFailActor", "LoadFailCritic", "LoadOk", "DQNLoadFail", "DQNLoadOk"}
Note(op, n, k) ==
  /\ lastOp' = op
  /\ envSteps' = n
  /\ usedKey' = k

\* an operation outside App's loop and outside PPOAgent.train
Mark(op, n, k) ==
  /\ Note(op, n, k)
  /\ UNCHANGED <<detailVars, ppoVars, mathVars>>

\* an operation of App: it has no reference to a DQNAgent or a ReplayBuffer,
\* and the cart-pole state it steps is an input of the loop (EnvAllows)
Hist(op, n, k) ==
  /\ Note(IF op \in Tracked THEN op ELSE "other", n, k)
  /\ trail' = <<>>
  /\ UNCHANGED <<rewardHistory, transitions, ppoVars, mathVars, delVars, cartVars,
                 bufVars, agentVars>>

\* an operation of App that steps or resets the environment, or changes what
\* was recorded
HistLoop(op, n, k) ==
  /\ Note(IF op \in Tracked THEN op ELSE "other", n, k)
  /\ UNCHANGED <<delVars, canvas, stepOut, pushes, bufVars, agentVars,
                 ppoVars, mathVars>>

\* ghost tag of a transition: age 0 is the episode in progress
Older(a) == IF a < MaxAge THEN a + 1 ELSE MaxAge
AgedData(td) == [i \in 1..Len(td) |-> [td[i] EXCEPT !.age = Older(td[i].age)]]

\* the state after construction (sc = 0), or the state sc steps into a first
\* episode that was played in manual mode, with manual mode switched off again
InitAt(maxSize, sc) ==
  /\ isPlaying = (sc > 0) /\ isTraining = FALSE /\ isManualMode = FALSE
  /\ trainingEnabled = TRUE /\ simSpeed = 1 /\ currentModel = NoModel
  /\ pending = NoPending /\ requestRef = (sc > 0)
  /\ agentRef = IF sc > 0 THEN NewAgent ELSE NoAgent
  /\ stepCountRef = sc /\ episodeRewardRef = IF sc > 0 THEN "nonzero" ELSE "zero"
  /\ trainingDataRef = <<>>
  /\ passes = <<>> /\ loads = <<>> /\ saves = <<>>
  /\ store = [n \in Names |-> [actor |-> FALSE, critic |-> FALSE, dqn |-> FALSE]]
  /\ dqn = NewDQN
  /\ models = {}
  /\ lastOp = "Init" /\ envSteps = 0 /\ usedKey = FALSE /\ ioDone = FALSE
  /\ deletes = <<>>
  /\ env = [state |-> [RestState EXCEPT !.thetaDot = sc], externalForce |-> 0]
  /\ canvas = [interactionEnabled |-> FALSE, isDragging |-> FALSE, lastX |-> 0]
  /\ stepOut = NoStep /\ pushes = <<>>
  /\ replayBuffer = [buffer |-> <<>>, maxSize |-> maxSize]
  /\ added = <<>> /\ lastSample = NoSample
  /\ epsilon = EPSILON_START /\ trainCalls = 0
  /\ snapshots = {NewDQN.model}
  /\ rewardHistory = 0 /\ transitions = <<>> /\ trail = <<>>
  /\ ppo = [actor |-> CreateModel("init"), critic |-> CreateModel("init")]
  /\ ppoCall = NoCall
  /\ calc = NoCalc

InitOf(maxSize) == InitAt(maxSize, 0)

\* a DQNAgent builds its buffer with BUFFER_SIZE
Init == InitOf(BUFFER_SIZE)

\* construction, or one step before the step ceiling of the first episode
InitDetail == \E sc \in {0, MAX_STEPS_PER_EPISODE - 1} : InitAt(BUFFER_SIZE, sc)

InitTF ==
  /\ agentRef = NoAgent
  /\ agentRef' = NewAgent
  /\ Hist("InitTF", 0, FALSE)
  /\ UNCHANGED <<isPlaying, isTraining, isManualMode, trainingEnabled, simSpeed,
                 currentModel, pending, requestRef, stepCountRef,
                 episodeRewardRef, trainingDataRef, passes, loads, saves,
                 store, dqn, models, ioDone>>

\* ---- stepSimulation and animate ----

\* CartPole.step's done flag is an input of the loop: the physics may report
\* done on any step, and within Spec reports it by step cap of an episode
EnvAllows(envDone, sc, cap) == envDone \/ sc + 1 < cap

\* the done flag of call i + 1 of a tick: the physics reports done on the call
\* numbered failAt, and on a later call of the same tick by the step cap
Reports(i, failAt, sc, cap) == i + 1 = failAt \/ (i + 1 > failAt /\ sc + 1 >= cap)

ForcedDone(envDone, sc) == envDone \/ sc >= MAX_STEPS_PER_EPISODE

\* a recording test that forgets the manual-mode flag
ShouldRecordAnyMode(te, mm) == te

ShouldRecord(te, mm) == te /\ ~mm

\* (episode + 1) % TRAIN_EVERY_EPISODES === 0 holds for every episode (modulo 1)
ShouldTrain(te, mm) == te /\ ~mm

KeyAction(mm, key) == mm /\ key # "none"

NewPass == [phase |-> "timer", agentOk |-> TRUE]

\* what a specification follows of the loop: the states of the environment and
\* the recorded transitions (env), and the length of rewardHistory up to a bound
Coarse == [env |-> FALSE, history |-> 0]

\* the Euler update is not computed in the loop: a step leads to a state that
\* differs from the earlier states of the episode, fallen over when the step
\* reports done
Moved(st) == [st EXCEPT !.thetaDot = st.thetaDot + 1]
Fallen(st) == [Moved(st) EXCEPT !.theta = MaxDegrees - Upright + 1]

\* a record that reads the next state after the reset
RecordedAfterReset(stateArr, nextStateArr, done, final) ==
  [state |-> stateArr, nextState |-> final, done |-> done]

\* trainingDataRef.current.push({state: stateArr, ..., nextState: nextStateArr, done});
\* final is the state of the environment when stepSimulation returns
Recorded(stateArr, nextStateArr, done, final) ==
  [state |-> stateArr, nextState |-> nextStateArr, done |-> done]

\* stepSimulation on the environment and the two histories: e is the CartPole,
\* recs the contents of trainingDataRef, hist the length of rewardHistory with
\* the functional updates queued, trail the steps of this animate call
StepDetail(d, envDone, done, record) ==
  LET hist == IF done /\ d.hist < d.w.history THEN d.hist + 1 ELSE d.hist
  IN IF ~d.w.env THEN [d EXCEPT !.hist = hist]
     ELSE
     LET stateArr == d.e.state
         stepped == [state |-> IF envDone THEN Fallen(stateArr) ELSE Moved(stateArr),
                     externalForce |-> 0]
         nextStateArr == stepped.state
         final == IF done THEN Reset(stepped, RestState) ELSE stepped
     IN [d EXCEPT !.e = final,
                  !.recs = IF record
                           THEN Append(d.recs, Recorded(stateArr, nextStateArr, done, final.state))
                           ELSE d.recs,
                  !.hist = hist,
                  !.trail = Append(d.trail, [before |-> stateArr, after |-> nextStateArr,
                                             ended |-> done, recorded |-> record])]

\* one call of stepSimulation; envDone is what CartPole.step reports, rw says
\* whether the episode's reward sum is 0 afterwards, key is the arrow key held
StepSimulation(s, envDone, rw, key) ==
  IF agentRef = NoAgent \/ isTraining THEN s
  ELSE
  LET done == ForcedDone(envDone, s.sc)
      byKey == KeyAction(isManualMode, key)
      td1 == IF ShouldRecord(trainingEnabled, isManualMode)
             THEN Append(s.td, [age |-> 0, manual |-> isManualMode, byKey |-> byKey])
             ELSE s.td
      trig == ShouldTrain(trainingEnabled, isManualMode)
  IN IF done
     THEN [sc |-> 0, rw |-> "zero", td |-> AgedData(td1),
           ps |-> IF trig THEN Append(s.ps, NewPass) ELSE s.ps,
           pd |-> IF trig THEN [s.pd EXCEPT !.isTraining = Upd(TRUE), !.isPlaying = Upd(FALSE)]
                  ELSE s.pd,
           n |-> s.n + 1, key |-> s.key \/ byKey, ok |-> s.ok,
           d |-> StepDetail(s.d, envDone, TRUE, ShouldRecord(trainingEnabled, isManualMode))]
     ELSE [sc |-> s.sc + 1, rw |-> rw, td |-> td1, ps |-> s.ps, pd |-> s.pd,
           n |-> s.n + 1, key |-> s.key \/ byKey, ok |-> s.ok,
           d |-> StepDetail(s.d, envDone, FALSE, ShouldRecord(trainingEnabled, isManualMode))]

\* a break test that looks for the training pause only
BreakLoopWhenTraining(s) == s.pd.isTraining # NoUpd

\* animate's break test after each stepSimulation call
BreakLoop(s) == s.sc = 0 /\ s.rw = "zero"

\* a loop that tests i <= speed
RECURSIVE LoopOneMore(_, _, _, _, _, _, _)
LoopOneMore(i, speed, s, failAt, rw, key, cap) ==
  IF i > speed THEN s
  ELSE IF ~EnvAllows(Reports(i, failAt, s.sc, cap), s.sc, cap) \/ Len(s.td) > MaxData
       THEN [s EXCEPT !.ok = FALSE]
       ELSE LET t == StepSimulation(s, Reports(i, failAt, s.sc, cap), rw, key)
            IN IF BreakLoop(t) THEN t
               ELSE LoopOneMore(i + 1, speed, t, failAt, rw, key, cap)

\* for (i = 0; i < speed; i++) { stepSimulation(); if (...) break; }
\* the physics reports done on the call numbered failAt (never, if beyond speed)
\* (a run that leaves the bounds of the model is cut short and dropped by Tick)
RECURSIVE Loop(_, _, _, _, _, _, _)
Loop(i, speed, s, failAt, rw, key, cap) ==
  IF i >= speed THEN s
  ELSE IF ~EnvAllows(Reports(i, failAt, s.sc, cap), s.sc, cap) \/ Len(s.td) > MaxData
       THEN [s EXCEPT !.ok = FALSE]
       ELSE LET t == StepSimulation(s, Reports(i, failAt, s.sc, cap), rw, key)
            IN IF BreakLoop(t) THEN t ELSE Loop(i + 1, speed, t, failAt, rw, key, cap)

LoopSpeed(mm, sp) == IF mm THEN 1 ELSE sp

\* the animation-frame callback (animate of the last committed render)
Animate(cap, w) ==
  /\ requestRef
  /\ IF isPlaying /\ ~isTraining
     THEN \E key \in Keys, rw \in {"zero", "nonzero"} :
          \E failAt \in 1..(LoopSpeed(isManualMode, simSpeed) + 1) :
            LET r == Loop(0, LoopSpeed(isManualMode, simSpeed),
                          [sc |-> stepCountRef, rw |-> episodeRewardRef,
                           td |-> trainingDataRef, ps |-> passes, pd |-> pending,
                           n |-> 0, key |-> FALSE, ok |-> TRUE,
                           d |-> [w |-> w, e |-> env, recs |-> transitions,
                                  hist |-> rewardHistory, trail |-> <<>>]],
                          failAt, rw, key, cap)
            IN
              /\ r.ok
              /\ Len(r.td) <= MaxData
              /\ Len(r.ps) <= MaxPasses
              /\ stepCountRef' = r.sc
              /\ episodeRewardRef' = r.rw
              /\ trainingDataRef' = r.td
              /\ passes' = r.ps
              /\ pending' = r.pd
              /\ env' = r.d.e
              /\ transitions' = r.d.recs
              /\ rewardHistory' = r.d.hist
              /\ trail' = r.d.trail
              /\ HistLoop("Tick", r.n, r.key)
              /\ requestRef' = TRUE
     ELSE /\ requestRef' = FALSE
          /\ HistLoop("Tick", 0, FALSE)
          /\ trail' = <<>>
          /\ UNCHANGED <<stepCountRef, episodeRewardRef, trainingDataRef, passes, pending,
                         env, transitions, rewardHistory>>
  /\ UNCHANGED <<isPlaying, isTraining, isManualMode, trainingEnabled, simSpeed,
                 currentModel, agentRef, loads, saves, store, dqn, models, ioDone>>

Tick(cap) == Animate(cap, Coarse)

\* React renders the queued updates and runs the effects
Render ==
  /\ pending # NoPending
  /\ Commit(pending, NoPending)
  /\ Hist("Render", 0, FALSE)
  /\ UNCHANGED <<isManualMode, simSpeed, agentRef, stepCountRef, episodeRewardRef,
                 trainingDataRef, passes, loads, saves, store, dqn, ioDone>>

\* animate with the environment's states and the recorded transitions followed
AnimateDetail == Animate(MaxEpLen, [env |-> TRUE, history |-> 0])

\* animate with rewardHistory counted one entry beyond HistoryLimit
AnimateHistory == Animate(MaxEpLen, [env |-> FALSE, history |-> HistoryLimit + 1])

\* ---- the 100 ms timer callback of stepSimulation ----

\* tf.tensor2d of an empty array throws; so does predict on a disposed model
TrainThrows(data, agentOk) == data = <<>> \/ ~agentOk

Remove(seq, i) == [j \in 1..(Len(seq) - 1) |-> IF j < i THEN seq[j] ELSE seq[j + 1]]

FirstTimer(ps, i) ==
  /\ ps[i].phase = "timer"
  /\ \A j \in 1..(i - 1) : ps[j].phase # "timer"

TimerFire ==
  \E i \in 1..Len(passes) :
    /\ FirstTimer(passes, i)
    /\ IF TrainThrows(trainingDataRef, passes[i].agentOk)
       THEN /\ passes' = Remove(passes, i)
            /\ Hist("TrainThrow", 0, FALSE)
       ELSE /\ passes' = [passes EXCEPT ![i].phase = "train"]
            /\ Hist("TimerFire", 0, FALSE)
    /\ UNCHANGED <<isPlaying, isTraining, isManualMode, trainingEnabled, simSpeed,
                   currentModel, pending, requestRef, agentRef, stepCountRef,
                   episodeRewardRef, trainingDataRef, loads, saves, store, dqn,
                   models, ioDone>>

\* agent.train resolves and the callback continues
TrainDone ==
  \E i \in 1..Len(passes) :
    /\ passes[i].phase = "train"
    /\ passes' = Remove(passes, i)
    /\ IF ~passes[i].agentOk
       THEN /\ Hist("TrainThrow", 0, FALSE)
            /\ UNCHANGED <<trainingDataRef, pending>>
       ELSE /\ trainingDataRef' = <<>>
            /\ transitions' = <<>>
            /\ pending' = [pending EXCEPT !.isTraining = Upd(FALSE), !.isPlaying = Upd(TRUE)]
            /\ trail' = <<>>
            /\ HistLoop("TrainDone", 0, FALSE)
            /\ UNCHANGED <<env, rewardHistory>>
    /\ UNCHANGED <<isPlaying, isTraining, isManualMode, trainingEnabled, simSpeed,
                   currentModel, requestRef, agentRef, stepCountRef,
                   episodeRewardRef, loads, saves, store, dqn, models, ioDone>>

\* ---- click handlers ----

TogglePlay ==
  /\ ~isTraining
  /\ Commit(pending, [NoPending EXCEPT !.isPlaying = Upd(~isPlaying)])
  /\ ioDone' = IF ~isPlaying THEN FALSE ELSE ioDone
  /\ Hist("TogglePlay", 0, FALSE)
  /\ UNCHANGED <<isManualMode, simSpeed, agentRef, stepCountRef, episodeRewardRef,
                 trainingDataRef, passes, loads, saves, store, dqn>>

Disposed(seq) == [i \in 1..Len(seq) |-> [seq[i] EXCEPT !.agentOk = FALSE]]

ResetSim ==
  /\ ~isTraining
  /\ Commit(pending, [NoPending EXCEPT !.isPlaying = Upd(FALSE), !.currentModel = Upd(NoModel)])
  /\ stepCountRef' = 0
  /\ episodeRewardRef' = "zero"
  /\ trainingDataRef' = <<>>
  /\ agentRef' = IF agentRef # NoAgent THEN NewAgent ELSE agentRef
  /\ passes' = IF agentRef # NoAgent THEN Disposed(passes) ELSE passes
  /\ loads' = IF agentRef # NoAgent THEN Disposed(loads) ELSE loads
  /\ env' = Reset(env, RestState)
  /\ rewardHistory' = 0
  /\ transitions' = <<>>
  /\ trail' = <<>>
  /\ HistLoop("ResetSim", 0, FALSE)
  /\ UNCHANGED <<isManualMode, simSpeed, saves, store, dqn, ioDone>>

ToggleManualMode ==
  /\ isManualMode' = ~isManualMode
  /\ simSpeed' = IF ~isManualMode THEN 1 ELSE simSpeed
  /\ Commit(pending, NoPending)
  /\ Hist("ToggleManualMode", 0, FALSE)
  /\ UNCHANGED <<agentRef, stepCountRef, episodeRewardRef, trainingDataRef,
                 passes, loads, saves, store, dqn, ioDone>>

SetTrainingEnabled(b) ==
  /\ Commit(pending, [NoPending EXCEPT !.trainingEnabled = Upd(b)])
  /\ Hist("SetTrainingEnabled", 0, FALSE)
  /\ UNCHANGED <<isManualMode, simSpeed, agentRef, stepCountRef, episodeRewardRef,
                 trainingDataRef, passes, loads, saves, store, dqn, ioDone>>

SetSimSpeed(sp) ==
  /\ ~(isManualMode /\ sp > 1)
  /\ simSpeed' = sp
  /\ Commit(pending, NoPending)
  /\ Hist("SetSimSpeed", 0, FALSE)
  /\ UNCHANGED <<isManualMode, agentRef, stepCountRef, episodeRewardRef,
                 trainingDataRef, passes, loads, saves, store, dqn, ioDone>>

\* ModelList.fetchModels (mount, refresh button)
FetchModels ==
  /\ models' = ListModels(store)
  /\ Hist("FetchModels", 0, FALSE)
  /\ UNCHANGED <<isPlaying, isTraining, isManualMode, trainingEnabled, simSpeed,
                 currentModel, pending, requestRef, agentRef, stepCountRef,
                 episodeRewardRef, trainingDataRef, passes, loads, saves,
                 store, dqn, ioDone>>

\* ---- handleSaveModel / PPOAgent.save ----

\* prompt() returns a name or null
SaveStart(answer) ==
  /\ agentRef # NoAgent
  /\ Len(saves) < MaxIO
  /\ Commit(pending, [NoPending EXCEPT !.isPlaying = Upd(FALSE)])
  /\ IF answer \in Names
     THEN /\ saves' = Append(saves, [name |-> answer, phase |-> "actor"])
          /\ ioDone' = ioDone
          /\ Hist("SaveStart", 0, FALSE)
     ELSE /\ saves' = saves
          /\ ioDone' = TRUE
          /\ Hist("SaveCancel", 0, FALSE)
  /\ UNCHANGED <<isManualMode, simSpeed, agentRef, stepCountRef, episodeRewardRef,
                 trainingDataRef, passes, loads, store, dqn>>

\* await this.actor.save(...) settles
SaveActorDone(ok) ==
  \E i \in 1..Len(saves) :
    /\ saves[i].phase = "actor"
    /\ IF ok
       THEN /\ store' = [store EXCEPT ![saves[i].name].actor = TRUE]
            /\ saves' = [saves EXCEPT ![i].phase = "critic"]
            /\ ioDone' = ioDone
            /\ Hist("SaveActor", 0, FALSE)
       ELSE /\ store' = store
            /\ saves' = Remove(saves, i)
            /\ ioDone' = TRUE
            /\ Hist("SaveFail", 0, FALSE)
    /\ UNCHANGED <<isPlaying, isTraining, isManualMode, trainingEnabled, simSpeed,
                   currentModel, pending, requestRef, agentRef, stepCountRef,
                   episodeRewardRef, trainingDataRef, passes, loads, models, dqn>>

\* await this.critic.save(...) settles, handleSaveModel continues
SaveCriticDone(ok) ==
  \E i \in 1..Len(saves) :
    /\ saves[i].phase = "critic"
    /\ saves' = Remove(saves, i)
    /\ ioDone' = TRUE
    /\ IF ok
       THEN /\ store' = [store EXCEPT ![saves[i].name].critic = TRUE]
            /\ pending' = [pending EXCEPT !.refresh = Upd(TRUE)]
            /\ Hist("SaveOk", 0, FALSE)
       ELSE /\ store' = store
            /\ pending' = pending
            /\ Hist("SaveFail", 0, FALSE)
    /\ UNCHANGED <<isPlaying, isTraining, isManualMode, trainingEnabled, simSpeed,
                   currentModel, requestRef, agentRef, stepCountRef,
                   episodeRewardRef, trainingDataRef, passes, loads, models, dqn>>

\* ---- handleLoadModel / PPOAgent.load ----

\* tf.loadLayersModel: a missing record fails, a stored one may be unreadable
ReadOutcomes(present) == IF present THEN BOOLEAN ELSE {FALSE}

\* a load button of ModelList
LoadStart(name, mode) ==
  /\ agentRef # NoAgent
  /\ name \in models
  /\ Len(loads) < MaxIO
  /\ Commit(pending, [NoPending EXCEPT !.isPlaying = Upd(FALSE)])
  /\ loads' = Append(loads, [name |-> name, mode |-> mode, phase |-> "actor",
                             agentOk |-> TRUE])
  /\ Hist("LoadStart", 0, FALSE)
  /\ UNCHANGED <<isManualMode, simSpeed, agentRef, stepCountRef, episodeRewardRef,
                 trainingDataRef, passes, saves, store, dqn, ioDone>>

\* a load that assigns this.actor as soon as the actor record is read
LoadFailedPartial(i) ==
  /\ loads' = Remove(loads, i)
  /\ ioDone' = TRUE
  /\ agentRef' = IF loads[i].phase = "critic" /\ loads[i].agentOk
                 THEN [agentRef EXCEPT !.actor = loads[i].name] ELSE agentRef
  /\ Hist(IF loads[i].phase = "actor" THEN "LoadFailActor" ELSE "LoadFailCritic", 0, FALSE)
  /\ UNCHANGED <<isPlaying, isTraining, isManualMode, trainingEnabled, simSpeed,
                 currentModel, pending, requestRef, stepCountRef,
                 episodeRewardRef, trainingDataRef, passes, saves, store, dqn, models>>

\* load threw: PPOAgent.load rethrows, handleLoadModel alerts
LoadFailed(i) ==
  /\ loads' = Remove(loads, i)
  /\ ioDone' = TRUE
  /\ Hist(IF loads[i].phase = "actor" THEN "LoadFailActor" ELSE "LoadFailCritic", 0, FALSE)
  /\ UNCHANGED <<isPlaying, isTraining, isManualMode, trainingEnabled, simSpeed,
                 currentModel, pending, requestRef, agentRef, stepCountRef,
                 episodeRewardRef, trainingDataRef, passes, saves, store, dqn, models>>

\* the networks of the agent once both records are read
LoadedAgent(agent, name) == [actor |-> name, critic |-> name]

\* await tf.loadLayersModel(actor record) settles
LoadActorDone ==
  \E i \in 1..Len(loads) : \E ok \in ReadOutcomes(store[loads[i].name].actor) :
    /\ loads[i].phase = "actor"
    /\ IF ok
       THEN /\ loads' = [loads EXCEPT ![i].phase = "critic"]
            /\ Hist("LoadActor", 0, FALSE)
            /\ UNCHANGED <<isPlaying, isTraining, isManualMode, trainingEnabled,
                           simSpeed, currentModel, pending, requestRef, agentRef,
                           stepCountRef, episodeRewardRef, trainingDataRef,
                           passes, saves, store, dqn, models, ioDone>>
       ELSE LoadFailed(i)

\* await tf.loadLayersModel(critic record) settles; on success the networks
\* are swapped and handleLoadModel continues
LoadCriticDone ==
  \E i \in 1..Len(loads) : \E ok \in ReadOutcomes(store[loads[i].name].critic) :
    /\ loads[i].phase = "critic"
    /\ IF ok /\ loads[i].agentOk
       THEN /\ loads' = Remove(loads, i)
            /\ agentRef' = LoadedAgent(agentRef, loads[i].name)
            /\ pending' = [pending EXCEPT !.currentModel = Upd(loads[i].name),
                                          !.trainingEnabled = Upd(loads[i].mode = "train")]
            /\ stepCountRef' = 0
            /\ episodeRewardRef' = "zero"
            /\ trainingDataRef' = AgedData(trainingDataRef)
            /\ ioDone' = TRUE
            /\ env' = Reset(env, RestState)
            /\ rewardHistory' = 0
            /\ trail' = <<>>
            /\ HistLoop("LoadOk", 0, FALSE)
            /\ UNCHANGED transitions
            /\ UNCHANGED <<isPlaying, isTraining, isManualMode, trainingEnabled,
                           simSpeed, currentModel, requestRef, passes, saves, store, dqn,
                           models>>
       ELSE LoadFailed(i)

\* ---- handleDelete of ModelList / PPOAgent.deleteModel ----

\* the delete button, confirm() answered with OK
DeleteStart(name) ==
  /\ name \in models
  /\ Len(deletes) < MaxIO
  /\ deletes' = Append(deletes, [name |-> name, phase |-> "actor"])
  /\ Mark("other", 0, FALSE)
  /\ UNCHANGED <<appVars, dqn, cartVars, bufVars, agentVars>>

\* await tf.io.removeModel(actor record) settles; removing a record that is
\* not there rejects, and handleDelete logs what deleteModel throws
DeleteActorDone ==
  \E i \in 1..Len(deletes) : \E ok \in ReadOutcomes(store[deletes[i].name].actor) :
    /\ deletes[i].phase = "actor"
    /\ IF ok
       THEN /\ store' = [store EXCEPT ![deletes[i].name].actor = FALSE]
            /\ deletes' = [deletes EXCEPT ![i].phase = "critic"]
       ELSE /\ store' = store
            /\ deletes' = Remove(deletes, i)
    /\ Mark("other", 0, FALSE)
    /\ UNCHANGED <<isPlaying, isTraining, isManualMode, trainingEnabled, simSpeed,
                   currentModel, pending, requestRef, agentRef, stepCountRef,
                   episodeRewardRef, trainingDataRef, passes, loads, saves,
                   models, ioDone, dqn, cartVars, bufVars, agentVars>>

\* await tf.io.removeModel(critic record) settles
DeleteCriticDone ==
  \E i \in 1..Len(deletes) : \E ok \in ReadOutcomes(store[deletes[i].name].critic) :
    /\ deletes[i].phase = "critic"
    /\ IF ok
       THEN /\ store' = [store EXCEPT ![deletes[i].name].critic = FALSE]
            /\ deletes' = [deletes EXCEPT ![i].phase = "fetch"]
       ELSE /\ store' = store
            /\ deletes' = Remove(deletes, i)
    /\ Mark("other", 0, FALSE)
    /\ UNCHANGED <<isPlaying, isTraining, isManualMode, trainingEnabled, simSpeed,
                   currentModel, pending, requestRef, agentRef, stepCountRef,
                   episodeRewardRef, trainingDataRef, passes, loads, saves,
                   models, ioDone, dqn, cartVars, bufVars, agentVars>>

\* await fetchModels() settles: the list is read again
DeleteFetchDone ==
  \E i \in 1..Len(deletes) :
    /\ deletes[i].phase = "fetch"
    /\ deletes' = Remove(deletes, i)
    /\ models' = ListModels(store)
    /\ Mark("other", 0, FALSE)
    /\ UNCHANGED <<isPlaying, isTraining, isManualMode, trainingEnabled, simSpeed,
                   currentModel, pending, requestRef, agentRef, stepCountRef,
                   episodeRewardRef, trainingDataRef, passes, loads, saves,
                   store, ioDone, dqn, cartVars, bufVars, agentVars>>

\* ---- CartPole (cartpole.ts) ----
\* x and the velocities are in hundredths, theta in tenths of a degree,
\* forces in halves, rewards in RewardUnit-ths

Abs(a) == IF a < 0 THEN -a ELSE a

RECURSIVE SumSeq(_)
SumSeq(seq) == IF seq = <<>> THEN 0 ELSE Head(seq) + SumSeq(Tail(seq))

\* Math.random() * 0.1 - 0.05 lies in [-0.05, 0.05); for theta, 0.05 rad is
\* 2.86 degrees
ResetValues == {-5, 4}
ResetAngles == {-28, 28}
ResetStates == {[x |-> a, xDot |-> -1 - a, theta |-> b, thetaDot |-> a] :
                  a \in ResetValues, b \in ResetAngles}

CartPoleReset ==
  \E st \in ResetStates :
    /\ env' = Reset(env, st)
    /\ stepOut' = [NoStep EXCEPT !.action = "reset", !.force = env.externalForce]
    /\ pushes' = <<>>
    /\ Mark("Reset", 0, FALSE)
    /\ UNCHANGED <<appVars, dqn, delVars, canvas, bufVars, agentVars>>

\* an applyForce that overwrites the accumulator
ApplyForceReplacing(e, force) == [e EXCEPT !.externalForce = force]

\* applyForce: this.externalForce += force
ApplyForce(e, force) == [e EXCEPT !.externalForce = e.externalForce + force]

\* the Euler update is not computed: a step may lead to any of these states,
\* which lie on and next to the limits of angle and position
XValues == {-X_THRESHOLD, 1 - X_THRESHOLD, 0, EdgeDistance, EdgeDistance + 1,
            X_THRESHOLD - 1, X_THRESHOLD}
ThetaValues == {MinDegrees - Upright - 1, MinDegrees - Upright, 0,
                MaxDegrees - Upright - 1, MaxDegrees - Upright,
                MaxDegrees - Upright + 1}
NextStates ==
  {[x |-> a, xDot |-> 6, theta |-> b, thetaDot |-> -6] :
     <<a, b>> \in (XValues \X {0, MinDegrees - Upright, MaxDegrees - Upright})
                  \cup ({0, X_THRESHOLD - 1} \X ThetaValues)}

\* degrees = 90 + nextTheta * 180 / Math.PI
Degrees(theta) == Upright + theta

\* an angle test that excludes the limits themselves
IsAngleSafeStrict(degrees) == degrees > MinDegrees /\ degrees < MaxDegrees

IsAngleSafe(degrees) == degrees >= MinDegrees /\ degrees <= MaxDegrees

IsPositionSafe(x) == x > -X_THRESHOLD /\ x < X_THRESHOLD

\* 1.0 + 2.0 * (1.0 - angleError) + 2.0 * (1.0 - positionError), less 2.0
\* beyond 1.5 from the centre; angleError = |degrees - 90| / (139 - 90),
\* positionError = |x| / X_THRESHOLD
ShapedReward(degrees, x) ==
  RewardUnit
  + 2 * (RewardUnit - Abs(degrees - Upright) * X_THRESHOLD)
  + 2 * (RewardUnit - Abs(x) * (MaxDegrees - Upright))
  - (IF Abs(x) > EdgeDistance THEN 2 * RewardUnit ELSE 0)

EngineForce(action) == IF action = "right" THEN FORCE_MAG ELSE -FORCE_MAG

\* step: the force is the engine's plus the accumulator, which is cleared;
\* then the new state, done and reward
CartPoleStep(action, next) ==
  LET force == EngineForce(action) + env.externalForce
      degrees == Degrees(next.theta)
      safe == IsAngleSafe(degrees) /\ IsPositionSafe(next.x)
  IN /\ env' = [state |-> next, externalForce |-> 0]
     /\ stepOut' = [action |-> action, force |-> force, done |-> ~safe,
                    reward |-> IF safe THEN ShapedReward(degrees, next.x)
                                       ELSE -10 * RewardUnit]
     /\ pushes' = <<>>
     /\ Mark("Step", 1, FALSE)
     /\ UNCHANGED <<appVars, dqn, delVars, canvas, bufVars, agentVars>>

\* ---- SimulationCanvas: dragging the cart ----

ClientXs == {0, 10}

\* FORCE_MULTIPLIER = 1.5, in halves
ForceMultiplier == 3

\* toggleInteractionMode of App
ToggleInteractionMode ==
  /\ canvas' = [canvas EXCEPT !.interactionEnabled = ~canvas.interactionEnabled]
  /\ Mark("other", 0, FALSE)
  /\ stepOut' = NoStep
  /\ UNCHANGED <<appVars, dqn, delVars, env, pushes, bufVars, agentVars>>

HandleStart(clientX) ==
  /\ canvas.interactionEnabled
  /\ canvas' = [canvas EXCEPT !.isDragging = TRUE, !.lastX = clientX]
  /\ Mark("other", 0, FALSE)
  /\ stepOut' = NoStep
  /\ UNCHANGED <<appVars, dqn, delVars, env, pushes, bufVars, agentVars>>

HandleMove(clientX) ==
  /\ canvas.interactionEnabled /\ canvas.isDragging
  /\ Len(pushes) < MaxPushes
  /\ LET force == (clientX - canvas.lastX) * ForceMultiplier
     IN /\ env' = ApplyForce(env, force)
        /\ pushes' = Append(pushes, force)
  /\ canvas' = [canvas EXCEPT !.lastX = clientX]
  /\ stepOut' = NoStep
  /\ Mark("ApplyForce", 0, FALSE)
  /\ UNCHANGED <<appVars, dqn, delVars, bufVars, agentVars>>

HandleEnd ==
  /\ canvas' = [canvas EXCEPT !.isDragging = FALSE]
  /\ Mark("other", 0, FALSE)
  /\ stepOut' = NoStep
  /\ UNCHANGED <<appVars, dqn, delVars, env, pushes, bufVars, agentVars>>

\* ---- ReplayBuffer (src/services/dqn.ts) ----

\* the transitions handed to add: state, action, reward, nextState, done
Transition(i) == [state |-> i, action |-> i % 2, reward |-> 10 * i,
                  nextState |-> i + 1, done |-> i % 2 = 0]
Transitions == {Transition(i) : i \in 1..2}

Min(a, b) == IF a < b THEN a ELSE b

\* an add that never evicts
AddKeepingAll(rb, t) == [rb EXCEPT !.buffer = Append(rb.buffer, t)]

\* add: shift the oldest entry out when the buffer is full, then push
Add(rb, t) ==
  LET kept == IF Len(rb.buffer) >= rb.maxSize THEN Tail(rb.buffer) ELSE rb.buffer
  IN [rb EXCEPT !.buffer = Append(kept, t)]

BufferAdd(t) ==
  /\ Len(added) < MaxAdds
  /\ replayBuffer' = Add(replayBuffer, t)
  /\ added' = Append(added, t)
  /\ Mark("Add", 0, FALSE)
  /\ UNCHANGED <<appVars, dqn, delVars, cartVars, lastSample, agentVars>>

Range(seq) == {seq[j] : j \in 1..Len(seq)}

\* the draws Math.floor(Math.random() * size) can give, as many as the
\* loop of one sample call may use
Draws(size) == UNION {[1..m -> 0..(size - 1)] : m \in 0..MaxDraws}

\* a sampling loop that takes every index drawn
RECURSIVE SampleLoopRepeating(_, _, _, _)
SampleLoopRepeating(buf, want, draws, indices) ==
  IF Len(indices) >= want THEN [done |-> TRUE, indices |-> indices]
  ELSE IF draws = <<>> THEN [done |-> FALSE, indices |-> indices]
  ELSE SampleLoopRepeating(buf, want, Tail(draws), Append(indices, Head(draws)))

\* while (samples.length < Math.min(size, batchSize)): draw an index, take it
\* unless it was taken before; indices lists the indices in the order taken
RECURSIVE SampleLoop(_, _, _, _)
SampleLoop(buf, want, draws, indices) ==
  IF Len(indices) >= want THEN [done |-> TRUE, indices |-> indices]
  ELSE IF draws = <<>> THEN [done |-> FALSE, indices |-> indices]
  ELSE IF Head(draws) \notin Range(indices)
       THEN SampleLoop(buf, want, Tail(draws), Append(indices, Head(draws)))
       ELSE SampleLoop(buf, want, Tail(draws), indices)

\* the object sample returns: samples.map(...) for each of the five fields
Batch(buf, indices, batchSize) ==
  LET samples == [j \in 1..Len(indices) |-> buf[indices[j] + 1]]
  IN [kind |-> "batch", batchSize |-> batchSize, indices |-> indices,
      states |-> [j \in 1..Len(samples) |-> samples[j].state],
      actions |-> [j \in 1..Len(samples) |-> samples[j].action],
      rewards |-> [j \in 1..Len(samples) |-> samples[j].reward],
      nextStates |-> [j \in 1..Len(samples) |-> samples[j].nextState],
      dones |-> [j \in 1..Len(samples) |-> samples[j].done]]

BufferSample(batchSize) ==
  LET buf == replayBuffer.buffer
      size == Len(buf)
  IN /\ IF size = 0
        THEN lastSample' = [NoSample EXCEPT !.kind = "null", !.batchSize = batchSize]
        ELSE \E draws \in Draws(size) :
               LET r == SampleLoop(buf, Min(size, batchSize), draws, <<>>)
               IN r.done /\ lastSample' = Batch(buf, r.indices, batchSize)
     /\ Mark("Sample", 0, FALSE)
     /\ UNCHANGED <<appVars, dqn, delVars, cartVars, replayBuffer, added, agentVars>>

\* ---- DQNAgent.train (src/services/dqn.ts) ----

Max(a, b) == IF a > b THEN a ELSE b

\* epsilon * 0.995, in millionths
PerMille == 1000
DecayPerMille == 995
Decayed(e) == (e * DecayPerMille) \div PerMille

\* a decay without the floor
UpdateEpsilonUnclamped(e) == Decayed(e)

\* updateEpsilon
UpdateEpsilon(e) ==
  IF e > EPSILON_END THEN Max(EPSILON_END, Decayed(e)) ELSE e

\* for (i < states.length) this.replayBuffer.add(...)
RECURSIVE AddAll(_, _)
AddAll(rb, items) ==
  IF items = <<>> THEN rb ELSE AddAll(Add(rb, Head(items)), Tail(items))

\* a train that never returns early
TrainsAlways(rb) == TRUE

\* the early return: if (this.replayBuffer.size() < BATCH_SIZE) return
TrainsNow(rb) == ~(Len(rb.buffer) < BATCH_SIZE)

\* a sync on every call
SyncsAlways(calls) == TRUE

\* if (this.trainCalls % TARGET_UPDATE_FREQ === 0)
SyncsNow(calls) == calls % TARGET_UPDATE_FREQ = 0

\* TRAIN_STEPS calls of optimizer.minimize on the online network; the target
\* network is only read (targetQ is computed outside the minimised function)
Minimized(agent) ==
  [agent EXCEPT !.model.steps = agent.model.steps + TRAIN_STEPS]

\* the sizes of the arrays handed to train
TrainSizes == {0, 1, BATCH_SIZE \div 2}

\* train has no await: the whole call is one step
DQNTrain(k, cap) ==
  LET items == [j \in 1..k |-> Transition(1)]
      rb == AddAll(replayBuffer, items)
  IN /\ Len(replayBuffer.buffer) + k <= MaxBuf
     /\ replayBuffer' = rb
     /\ added' = added \o items
     /\ IF TrainsNow(rb)
        THEN LET trained == Minimized(dqn)
                 calls == trainCalls + 1
             IN /\ trainCalls < cap
                /\ epsilon' = UpdateEpsilon(epsilon)
                /\ trainCalls' = calls
                /\ dqn' = IF SyncsNow(calls) THEN UpdateTargetModel(trained)
                                             ELSE trained
                /\ snapshots' = snapshots \cup {trained.model}
                /\ Mark("DQNTrain", 0, FALSE)
        ELSE /\ Mark("DQNTrainSkip", 0, FALSE)
             /\ UNCHANGED <<dqn, epsilon, trainCalls, snapshots>>
     /\ UNCHANGED <<appVars, delVars, cartVars, lastSample>>

\* ---- DQNAgent persistence (src/services/dqn.ts) ----

\* save has one await and nothing else: it acts when the request settles
DQNSave(name, ok) ==
  /\ store' = IF ok THEN [store EXCEPT ![name].dqn = TRUE] ELSE store
  /\ Hist("DQNSave", 0, FALSE)
  /\ UNCHANGED <<isPlaying, isTraining, isManualMode, trainingEnabled, simSpeed,
                 currentModel, pending, requestRef, agentRef, stepCountRef,
                 episodeRewardRef, trainingDataRef, passes, loads, saves, dqn,
                 models, ioDone>>

\* a load that leaves the fresh target network as createModel built it
DQNLoadedUnsynced(agent, name) ==
  [model |-> Params(name), targetModel |-> CreateModel("blank")]

\* after a read that succeeded: the loaded model, and a fresh target network
\* that updateTargetModel overwrites with the loaded weights
DQNLoaded(agent, name) ==
  UpdateTargetModel([model |-> Params(name), targetModel |-> CreateModel("blank")])

\* load acts when tf.loadLayersModel settles; a failure is rethrown
DQNLoad(name) ==
  \E ok \in ReadOutcomes(store[name].dqn) :
    /\ dqn' = IF ok THEN DQNLoaded(dqn, name) ELSE dqn
    /\ snapshots' = snapshots \cup {dqn'.model}
    /\ Mark(IF ok THEN "DQNLoadOk" ELSE "DQNLoadFail", 0, FALSE)
    /\ UNCHANGED <<appVars, delVars, cartVars, bufVars, epsilon, trainCalls>>

\* ---- CartPole.step: the Euler update (cartpole.ts) ----
\* here every quantity is in thousandths (theta in thousandths of a radian)

Milli == 1000
GRAVITY == 9800
MASSCART == 1000
MASSPOLE == 100
TOTAL_MASS == MASSCART + MASSPOLE
LENGTH == 500
TAU == 20

\* a / b of two numbers, rounded towards 0
Quot(a, b) == IF a < 0 THEN -((-a) \div b) ELSE a \div b

\* a * b of two numbers in thousandths
Times(a, b) == Quot(a * b, Milli)

POLEMASS_LENGTH == Times(MASSPOLE, LENGTH)

\* Math.sin and Math.cos by their series, for the small angles used here
MathSin(t) == t - Quot(Times(Times(t, t), t), 6)
MathCos(t) == Milli - Quot(Times(t, t), 2)

\* an update that advances the positions with the new velocities
EulerSemiImplicit(st, force) ==
  LET costheta == MathCos(st.theta)
      sintheta == MathSin(st.theta)
      temp == Quot((force + Times(POLEMASS_LENGTH,
                                  Times(Times(st.thetaDot, st.thetaDot), sintheta)))
                   * Milli, TOTAL_MASS)
      thetaAcc == Quot((Times(GRAVITY, sintheta) - Times(costheta, temp)) * Milli,
                       Times(LENGTH, Quot(4 * Milli, 3)
                                       - Quot(Times(MASSPOLE, Times(costheta, costheta))
                                              * Milli, TOTAL_MASS)))
      xAcc == temp - Quot(Times(POLEMASS_LENGTH, Times(thetaAcc, costheta)) * Milli,
                          TOTAL_MASS)
      nextxDot == st.xDot + Times(TAU, xAcc)
      nextThetaDot == st.thetaDot + Times(TAU, thetaAcc)
  IN [x |-> st.x + Times(TAU, nextxDot), xDot |-> nextxDot,
      theta |-> st.theta + Times(TAU, nextThetaDot), thetaDot |-> nextThetaDot]

\* the accelerations from the state before the step, then the Euler
\* integration: positions advance with the velocities from before the step
Euler(st, force) ==
  LET costheta == MathCos(st.theta)
      sintheta == MathSin(st.theta)
      temp == Quot((force + Times(POLEMASS_LENGTH,
                                  Times(Times(st.thetaDot, st.thetaDot), sintheta)))
                   * Milli, TOTAL_MASS)
      thetaAcc == Quot((Times(GRAVITY, sintheta) - Times(costheta, temp)) * Milli,
                       Times(LENGTH, Quot(4 * Milli, 3)
                                       - Quot(Times(MASSPOLE, Times(costheta, costheta))
                                              * Milli, TOTAL_MASS)))
      xAcc == temp - Quot(Times(POLEMASS_LENGTH, Times(thetaAcc, costheta)) * Milli,
                          TOTAL_MASS)
  IN [x |-> st.x + Times(TAU, st.xDot),
      xDot |-> st.xDot + Times(TAU, xAcc),
      theta |-> st.theta + Times(TAU, st.thetaDot),
      thetaDot |-> st.thetaDot + Times(TAU, thetaAcc)]

\* 180 / Math.PI, in tenths of a degree for a thousandth of a radian
TenthsPerRadian == 573

\* degrees = 90 + nextTheta * 180 / Math.PI, in tenths of a degree
DegreesOf(theta) == Upright + Times(theta, TenthsPerRadian)

\* a position in hundredths
Hundredths(x) == Quot(x, 10)

\* forces are in halves elsewhere
ForceOf(halves) == halves * (Milli \div 2)

\* step from a given state: force, Euler update, done and reward
StepFrom(st, action, externalForce) ==
  LET next == Euler(st, ForceOf(EngineForce(action) + externalForce))
      degrees == DegreesOf(next.theta)
      safe == IsAngleSafe(degrees) /\ IsPositionSafe(Hundredths(next.x))
  IN [op |-> "step", state |-> st, action |-> action,
      externalForce |-> externalForce, next |-> next, done |-> ~safe,
      reward |-> IF safe THEN ShapedReward(degrees, Hundredths(next.x))
                         ELSE -10 * RewardUnit]

\* the states a step is taken from
Origin == [x |-> 0, xDot |-> 0, theta |-> 0, thetaDot |-> 0]
StartStates == [x : {0, 1000}, xDot : {-500, 0, 500},
                theta : {-20, 0, 20}, thetaDot : {-500, 0, 500}]
StartForces == {-30, 0, 30}

CartPoleStepFrom(st, action, externalForce) ==
  /\ calc' = StepFrom(st, action, externalForce)
  /\ Note("StepFrom", 1, FALSE)
  /\ UNCHANGED <<appVars, dqn, delVars, cartVars, bufVars, agentVars,
                 detailVars, ppoVars>>

\* ---- PPOAgent.train: the clipped surrogate (src/services/ppo.ts) ----
\* ratios are in hundredths

One == 100
CLIP_RATIO == 20

\* tf.clipByValue
ClipByValue(x, lo, hi) == IF x < lo THEN lo ELSE IF x > hi THEN hi ELSE x

\* a surrogate that takes the larger of the two products
SurrogateMax(ratio, advantage) ==
  Max(ratio * advantage,
      ClipByValue(ratio, One - CLIP_RATIO, One + CLIP_RATIO) * advantage)

\* tf.minimum(surr1, surr2) for one step of the trajectory
Surrogate(ratio, advantage) ==
  LET clippedRatio == ClipByValue(ratio, One - CLIP_RATIO, One + CLIP_RATIO)
      surr1 == ratio * advantage
      surr2 == clippedRatio * advantage
  IN Min(surr1, surr2)

\* the ratios newActionProbs / oldActionProbs can take, and the advantages
Ratios == {10 * k : k \in 1..MaxRatio} \cup
          {One - CLIP_RATIO - 1, One - CLIP_RATIO + 1,
           One + CLIP_RATIO - 1, One + CLIP_RATIO + 1}
Advantages == (-MaxAdvantage)..MaxAdvantage

ActorLossTerm(ratio, advantage) ==
  /\ calc' = [op |-> "surrogate", ratio |-> ratio, advantage |-> advantage,
              out |-> Surrogate(ratio, advantage)]
  /\ Note("Surrogate", 0, FALSE)
  /\ UNCHANGED <<appVars, dqn, delVars, cartVars, bufVars, agentVars,
                 detailVars, ppoVars>>

\* ---- DQNAgent.train: the regression target (src/services/dqn.ts) ----
\* Q-values and rewards are whole numbers, targets are in hundredths

GAMMA == 99

\* argMax(1) of a row of two Q-values: the first index that holds the maximum
ArgMax(q) == IF q[1] >= q[2] THEN 1 ELSE 2

\* a target without the (1 - done) factor
TargetQUnmasked(reward, done, online, target) ==
  One * reward + target[ArgMax(online)] * GAMMA

\* targetQ = reward + nextQValuesEx * GAMMA * (1 - done), where nextQValuesEx
\* is the target network's value of the online network's best action
TargetQ(reward, done, online, target) ==
  LET bestNextAction == ArgMax(online)
      nextQValuesEx == target[bestNextAction]
      doneValue == IF done THEN 1 ELSE 0
  IN One * reward + nextQValuesEx * GAMMA * (1 - doneValue)

\* the outputs of a network for one next state
QRows == [1..2 -> (-MaxQ)..MaxQ]

DQNTarget(reward, done, online, target) ==
  /\ calc' = [op |-> "targetQ", reward |-> reward, done |-> done,
              online |-> online, target |-> target,
              out |-> TargetQ(reward, done, online, target)]
  /\ Note("TargetQ", 0, FALSE)
  /\ UNCHANGED <<appVars, dqn, delVars, cartVars, bufVars, agentVars,
                 detailVars, ppoVars>>

\* ---- PPOAgent.train as a process (src/services/ppo.ts) ----
\* a value computed from a network is told by the parameters the network had

EPOCHS == 10

\* one optimizer.minimize call on a network
Minimize(net) == [net EXCEPT !.steps = net.steps + 1]

\* a loop that takes the old probabilities again in every epoch
RECURSIVE EpochsRefreshing(_, _, _, _)
EpochsRefreshing(i, agent, frozen, log) ==
  IF i >= EPOCHS THEN [agent |-> agent, log |-> log]
  ELSE LET a1 == [agent EXCEPT !.actor = Minimize(agent.actor)]
           a2 == [a1 EXCEPT !.critic = Minimize(a1.critic)]
       IN EpochsRefreshing(i + 1, a2, frozen,
            log \o <<[net |-> "actor", oldActionProbs |-> agent.actor,
                      advantages |-> frozen.advantages],
                     [net |-> "critic", targets |-> frozen.returns]>>)

\* for (i < EPOCHS): actorOptimizer.minimize, then criticOptimizer.minimize;
\* log lists the minimize calls with the constant tensors their loss reads
RECURSIVE Epochs(_, _, _, _)
Epochs(i, agent, frozen, log) ==
  IF i >= EPOCHS THEN [agent |-> agent, log |-> log]
  ELSE LET a1 == [agent EXCEPT !.actor = Minimize(agent.actor)]
           a2 == [a1 EXCEPT !.critic = Minimize(a1.critic)]
       IN Epochs(i + 1, a2, frozen,
            log \o <<[net |-> "actor", oldActionProbs |-> frozen.oldActionProbs,
                      advantages |-> frozen.advantages],
                     [net |-> "critic", targets |-> frozen.returns]>>)

\* train up to its first await: both predictions of the critic are made
PPOTrainStart ==
  /\ ppoCall.phase \in {"idle", "done"}
  /\ ppo.actor.steps + EPOCHS <= MaxPPOCalls * EPOCHS
  /\ ppoCall' = [phase |-> "values", entry |-> ppo, values |-> ppo.critic]
  /\ Note("PPOTrainStart", 0, FALSE)
  /\ UNCHANGED <<appVars, dqn, delVars, cartVars, bufVars, agentVars,
                 detailVars, ppo, mathVars>>

\* await valuesTensor.data() settles; train awaits nextValuesTensor.data()
PPOValuesRead ==
  /\ ppoCall.phase = "values"
  /\ ppoCall' = [ppoCall EXCEPT !.phase = "nextValues"]
  /\ Note("PPOValuesRead", 0, FALSE)
  /\ UNCHANGED <<appVars, dqn, delVars, cartVars, bufVars, agentVars,
                 detailVars, ppo, mathVars>>

\* the second await settles: advantages and returns from the values read,
\* the old probabilities from this.actor, then the epochs
PPOTrainFinish ==
  /\ ppoCall.phase = "nextValues"
  /\ LET frozen == [advantages |-> ppoCall.values, returns |-> ppoCall.values,
                    oldActionProbs |-> ppo.actor]
         r == Epochs(0, ppo, frozen, <<>>)
     IN /\ ppo' = r.agent
        /\ ppoCall' = [phase |-> "done", entry |-> ppoCall.entry,
                       values |-> ppoCall.values, log |-> r.log]
  /\ Note("PPOTrainFinish", 0, FALSE)
  /\ UNCHANGED <<appVars, dqn, delVars, cartVars, bufVars, agentVars,
                 detailVars, mathVars>>

\* PPOAgent.load once both records are read: the networks are replaced
PPOLoaded(agent, name) == [actor |-> Params(name), critic |-> Params(name)]

PPOLoadDone(name) ==
  /\ ppo' = PPOLoaded(ppo, name)
  /\ Note("PPOLoadDone", 0, FALSE)
  /\ UNCHANGED <<appVars, dqn, delVars, cartVars, bufVars, agentVars,
                 detailVars, ppoCall, mathVars>>

\* ---- specifications ----

\* the simulation loop, the training pass and the controls
Next ==
  \/ InitTF
  \/ Tick(MaxEpLen)
  \/ Render
  \/ TimerFire
  \/ TrainDone
  \/ TogglePlay
  \/ ResetSim
  \/ ToggleManualMode
  \/ \E b \in BOOLEAN : SetTrainingEnabled(b)
  \/ \E sp \in SimSpeeds : SetSimSpeed(sp)

Spec == Init /\ [][Next]_vars

\* the same, with every queued update rendered before anything else runs
Rendered == pending = NoPending

NextSync ==
  \/ InitTF
  \/ Rendered /\ Tick(MaxEpLen)
  \/ Render
  \/ Rendered /\ TimerFire
  \/ Rendered /\ TrainDone
  \/ Rendered /\ TogglePlay
  \/ Rendered /\ ResetSim
  \/ Rendered /\ ToggleManualMode
  \/ \E b \in BOOLEAN : Rendered /\ SetTrainingEnabled(b)
  \/ \E sp \in SimSpeeds : Rendered /\ SetSimSpeed(sp)

SpecSync == Init /\ [][NextSync]_vars

\* the loop and the training pass with save and load
NextIO ==
  \/ InitTF
  \/ Tick(MaxEpLen)
  \/ Render
  \/ TimerFire
  \/ TrainDone
  \/ TogglePlay
  \/ ResetSim
  \/ FetchModels
  \/ \E a \in Names \cup {"null"} : SaveStart(a)
  \/ \E ok \in BOOLEAN : SaveActorDone(ok)
  \/ \E ok \in BOOLEAN : SaveCriticDone(ok)
  \/ \E n \in Names, m \in {"test", "train"} : LoadStart(n, m)
  \/ LoadActorDone
  \/ LoadCriticDone

SpecIO == Init /\ [][NextIO]_vars

\* the same, with every queued update rendered before anything else runs
NextIOSync ==
  \/ InitTF
  \/ Rendered /\ Tick(MaxEpLen)
  \/ Render
  \/ Rendered /\ TimerFire
  \/ Rendered /\ TrainDone
  \/ Rendered /\ TogglePlay
  \/ Rendered /\ ResetSim
  \/ Rendered /\ FetchModels
  \/ \E a \in Names \cup {"null"} : Rendered /\ SaveStart(a)
  \/ \E ok \in BOOLEAN : Rendered /\ SaveActorDone(ok)
  \/ \E ok \in BOOLEAN : Rendered /\ SaveCriticDone(ok)
  \/ \E n \in Names, m \in {"test", "train"} : Rendered /\ LoadStart(n, m)
  \/ Rendered /\ LoadActorDone
  \/ Rendered /\ LoadCriticDone

SpecIOSync == Init /\ [][NextIOSync]_vars

\* persistence of both agents
NextLoad ==
  \/ InitTF
  \/ Render
  \/ TogglePlay
  \/ ResetSim
  \/ \E b \in BOOLEAN : SetTrainingEnabled(b)
  \/ FetchModels
  \/ \E a \in Names \cup {"null"} : SaveStart(a)
  \/ \E ok \in BOOLEAN : SaveActorDone(ok)
  \/ \E ok \in BOOLEAN : SaveCriticDone(ok)
  \/ \E n \in Names, m \in {"test", "train"} : LoadStart(n, m)
  \/ LoadActorDone
  \/ LoadCriticDone
  \/ \E n \in Names, ok \in BOOLEAN : DQNSave(n, ok)
  \/ \E n \in Names : DQNLoad(n)

SpecLoad == Init /\ [][NextLoad]_vars

\* the model store: save, list, load and delete of the PPO agent's records
NextStore ==
  \/ InitTF
  \/ Render
  \/ FetchModels
  \/ \E a \in Names \cup {"null"} : SaveStart(a)
  \/ \E ok \in BOOLEAN : SaveActorDone(ok)
  \/ \E ok \in BOOLEAN : SaveCriticDone(ok)
  \/ \E n \in Names, m \in {"test", "train"} : LoadStart(n, m)
  \/ LoadActorDone
  \/ LoadCriticDone
  \/ \E n \in Names : DeleteStart(n)
  \/ DeleteActorDone
  \/ DeleteCriticDone
  \/ DeleteFetchDone

SpecStore == Init /\ [][NextStore]_vars

\* a ReplayBuffer built with some capacity, then add and sample calls
InitBuffer == \E c \in 1..MaxCap : InitOf(c)

NextBuffer ==
  \/ \E t \in Transitions : BufferAdd(t)
  \/ \E b \in 0..MaxBatch : BufferSample(b)

SpecBuffer == InitBuffer /\ [][NextBuffer]_vars

\* a DQNAgent: train, save and load
NextDQN ==
  \/ \E k \in TrainSizes : DQNTrain(k, MaxTrainCalls)
  \/ \E n \in Names, ok \in BOOLEAN : DQNSave(n, ok)
  \/ \E n \in Names : DQNLoad(n)

SpecDQN == Init /\ [][NextDQN]_vars

\* a DQNAgent trained until epsilon is at its floor
NextEpsilon == \E k \in TrainSizes : DQNTrain(k, MaxDecays)

SpecEpsilon == Init /\ [][NextEpsilon]_vars

\* the cart-pole environment and the drag handlers that push it
NextCart ==
  \/ \E a \in {"left", "right"}, st \in NextStates : CartPoleStep(a, st)
  \/ CartPoleReset
  \/ ToggleInteractionMode
  \/ \E cx \in ClientXs : HandleStart(cx)
  \/ \E cx \in ClientXs : HandleMove(cx)
  \/ HandleEnd

SpecCart == Init /\ [][NextCart]_vars

\* single steps of the cart-pole from states at and around rest
NextEuler ==
  \E st \in StartStates, a \in {"left", "right"}, f \in StartForces :
    CartPoleStepFrom(st, a, f)

SpecEuler == Init /\ [][NextEuler]_vars

\* the per-step term of the policy loss, for ratios and advantages
NextSurrogate == \E r \in Ratios, a \in Advantages : ActorLossTerm(r, a)

SpecSurrogate == Init /\ [][NextSurrogate]_vars

\* the regression target of one sampled transition
\* the target of one sample of the batch
NextTarget ==
  /\ calc = NoCalc
  /\ \E r \in (-MaxQ)..MaxQ, d \in BOOLEAN, on \in QRows, tg \in QRows :
       DQNTarget(r, d, on, tg)

SpecTarget == Init /\ [][NextTarget]_vars

\* a PPOAgent: train calls, and loads that complete at any time
NextPPO ==
  \/ PPOTrainStart
  \/ PPOValuesRead
  \/ PPOTrainFinish
  \/ \E n \in Names : PPOLoadDone(n)

SpecPPO == Init /\ [][NextPPO]_vars

\* no step cap: the physics may keep the pole up for ever
NoCap == MAX_STEPS_PER_EPISODE + 2

\* animate late in an episode, where the physics need not report done
AnimateLate ==
  /\ stepCountRef >= MAX_STEPS_PER_EPISODE - 1
  /\ Animate(NoCap, [env |-> TRUE, history |-> 0])

\* the loop with the states it steps through and the transitions it records,
\* up to the timer callback of a training pass
NextDetail ==
  \/ InitTF
  \/ AnimateDetail
  \/ AnimateLate
  \/ Render
  \/ TogglePlay
  \/ ResetSim
  \/ \E b \in BOOLEAN : SetTrainingEnabled(b)
  \/ \E sp \in SimSpeeds : SetSimSpeed(sp)

SpecDetail == InitDetail /\ [][NextDetail]_vars

\* the loop with the length of rewardHistory
NextHistory ==
  \/ InitTF
  \/ AnimateHistory
  \/ Render
  \/ TimerFire
  \/ TrainDone
  \/ TogglePlay
  \/ ResetSim
  \/ \E b \in BOOLEAN : SetTrainingEnabled(b)

SpecHistory == Init /\ [][NextHistory]_vars

\* the loop with a physics that may keep the pole up for ever
NextCeiling ==
  \/ InitTF
  \/ Tick(NoCap)
  \/ Render
  \/ TogglePlay
  \/ ToggleManualMode

SpecCeiling == Init /\ [][NextCeiling]_vars

\* ---- properties ----

TypeOK ==
  /\ isPlaying \in BOOLEAN /\ isTraining \in BOOLEAN
  /\ isManualMode \in BOOLEAN /\ trainingEnabled \in BOOLEAN
  /\ simSpeed \in SimSpeeds
  /\ currentModel \in Names \cup {NoModel}
  /\ requestRef = (isPlaying /\ ~isTraining)
  /\ stepCountRef \in 0..(MAX_STEPS_PER_EPISODE + 1)
  /\ (stepCountRef = 0 => episodeRewardRef = "zero")
  /\ Len(trainingDataRef) <= MaxData
  /\ Len(passes) <= MaxPasses
  /\ Len(loads) <= MaxIO /\ Len(saves) <= MaxIO

\* agent.train is called in this step
TrainCalled == lastOp' = "TimerFire" /\ passes' # passes

\* C1: while a training pass is pending or in flight (from the episode end
\* that set its timer until its agent.train call has settled) no operation
\* executes CartPole.step.
C1_NoStepDuringPass == [][passes # <<>> => envSteps' = 0]_vars

\* C2: in every step taken while training is disabled, no transition is
\* appended to the training data and agent.train is not called.
C2_TestModeNeverTrains ==
  [][~trainingEnabled =>
       /\ Len(trainingDataRef') <= Len(trainingDataRef)
       /\ ~TrainCalled]_vars

\* C3: the training data never holds a transition of a step taken in manual
\* mode, nor one whose action came from a key press; so what is handed to the
\* trainer was chosen by the policy.
C3_NoManualTransitions ==
  \A i \in 1..Len(trainingDataRef) :
    ~trainingDataRef[i].manual /\ ~trainingDataRef[i].byKey

\* C3 witness: a manual-mode tick stepped the environment with a key held,
\* while transitions recorded earlier are in the training data.
C3_Witness ==
  /\ isManualMode /\ lastOp = "Tick" /\ envSteps = 1 /\ usedKey
  /\ trainingDataRef # <<>>

\* C4: when agent.train is called, all transitions handed over carry the tag
\* of one episode (none is left from an earlier episode).
C4_OneEpisodePerPass ==
  [][TrainCalled =>
       \A j, k \in 1..Len(trainingDataRef) :
         trainingDataRef[j].age = trainingDataRef[k].age]_vars

\* C5: at most one training pass is pending or in flight at any time.
C5_OnePassAtATime == Len(passes) <= 1

\* C6: isTraining is set only while a pass is pending or in flight, or while
\* the update that clears it waits for the render; otherwise nothing is left
\* that would ever clear it and the orchestrator stays in AwaitingTraining.
C6_NeverStuckTraining ==
  (passes = <<>> /\ pending.isTraining = NoUpd) => ~isTraining

\* C7: the steps of the episode in progress, counted with those of the tick
\* just run, never exceed MAX_STEPS_PER_EPISODE.
C7_EpisodeWithinCeiling ==
  [][(lastOp' = "Tick" /\ envSteps' > 0) =>
       stepCountRef + envSteps' <= MAX_STEPS_PER_EPISODE]_vars

\* C8: once a save or load has finished and the orchestrator is paused, only
\* the play button makes isPlaying true again.
C8_StaysPausedAfterIO ==
  [][(ioDone /\ ~isPlaying /\ isPlaying') => lastOp' = "TogglePlay"]_vars

\* C9: once a pass is triggered, a play/pause or reset click leaves the pass,
\* the agent it will train and the data it will be handed as they are.
C9_ControlsCannotTouchPass ==
  [][(passes # <<>> /\ lastOp' \in {"TogglePlay", "ResetSim"}) =>
       UNCHANGED <<passes, agentRef, trainingDataRef>>]_vars

\* C10: a load that fails leaves the agent's networks as they were (actor and
\* critic of the PPO agent, online and target network of the DQN agent), and
\* handleLoadModel then leaves currentModel and trainingEnabled as they were;
\* the networks of an agent are replaced by a load that succeeded or by a
\* reset, and by no other step of a load.
C10_FailedLoadKeepsNetworks ==
  [][/\ (lastOp' \in {"LoadFailActor", "LoadFailCritic"} /\ loads' # loads) =>
          /\ agentRef' = agentRef
          /\ currentModel' = currentModel /\ trainingEnabled' = trainingEnabled
          /\ pending' = pending
     /\ (agentRef # NoAgent /\ agentRef' # agentRef) =>
          lastOp' \in {"LoadOk", "ResetSim"}
     /\ lastOp' = "DQNLoadFail" => dqn' = dqn
     /\ dqn' # dqn => lastOp' = "DQNLoadOk"]_vars

\* C10 witness: the actor record was read, the critic record is missing, the
\* load has failed and the agent still has the networks it was built with.
C10_Witness ==
  /\ lastOp = "LoadFailCritic"
  /\ store["m1"].actor /\ ~store["m1"].critic
  /\ agentRef = NewAgent /\ currentModel = NoModel

\* C11: once no save and no delete is under way, every name has both of its
\* records or neither, and every name listModels returns has a critic record
\* for load to find.
C11_RecordsCoupled ==
  (saves = <<>> /\ deletes = <<>>) =>
    /\ \A n \in Names : store[n].actor = store[n].critic
    /\ \A n \in ListModels(store) : store[n].critic

\* C12: after n add calls on a buffer of capacity C, the buffer holds the
\* last min(n, C) transitions added, in the order they were added.
C12_BufferKeepsNewest ==
  LET n == Len(added)
      k == Min(n, replayBuffer.maxSize)
  IN /\ Len(replayBuffer.buffer) = k
     /\ Len(replayBuffer.buffer) <= replayBuffer.maxSize
     /\ replayBuffer.buffer = SubSeq(added, n - k + 1, n)

\* C12 witness: more transitions were added than the buffer holds, the
\* oldest and the newest of them differ, and the last call was an add.
C12_Witness ==
  /\ lastOp = "Add" /\ Len(added) > replayBuffer.maxSize + 1
  /\ replayBuffer.maxSize = 2
  /\ added[1] # added[Len(added)]
  /\ replayBuffer.buffer[1] # replayBuffer.buffer[2]

\* C13: sample(B) on an empty buffer returns null; otherwise it returns
\* min(n, B) entries from pairwise distinct positions of the buffer, its
\* five arrays aligned with those positions; the buffer is not changed.
C13_SampleDistinctAligned ==
  [][lastOp' = "Sample" =>
       LET buf == replayBuffer.buffer
           n == Len(buf)
           r == lastSample'
           k == Len(r.indices)
       IN /\ replayBuffer' = replayBuffer
          /\ (n = 0) = (r.kind = "null")
          /\ n > 0 =>
               /\ r.kind = "batch"
               /\ k = Min(n, r.batchSize)
               /\ \A i, j \in 1..k : i # j => r.indices[i] # r.indices[j]
               /\ \A j \in 1..k : r.indices[j] \in 0..(n - 1)
               /\ Len(r.states) = k /\ Len(r.actions) = k /\ Len(r.rewards) = k
               /\ Len(r.nextStates) = k /\ Len(r.dones) = k
               /\ \A j \in 1..k :
                    /\ r.states[j] = buf[r.indices[j] + 1].state
                    /\ r.actions[j] = buf[r.indices[j] + 1].action
                    /\ r.rewards[j] = buf[r.indices[j] + 1].reward
                    /\ r.nextStates[j] = buf[r.indices[j] + 1].nextState
                    /\ r.dones[j] = buf[r.indices[j] + 1].done]_vars

\* C13 witness: a sample of two entries was returned for a batch size
\* larger than the buffer, which holds two different transitions.
C13_Witness ==
  /\ lastOp = "Sample" /\ lastSample.kind = "batch"
  /\ Len(lastSample.indices) = 2 /\ lastSample.batchSize = MaxBatch
  /\ Len(replayBuffer.buffer) = 2
  /\ lastSample.states[1] # lastSample.states[2]

\* a call of DQNAgent.train ran in this step
TrainRan == lastOp' \in {"DQNTrain", "DQNTrainSkip"}

\* C14: epsilon is 1.0 before the first training, never increases, is never
\* below 0.01, becomes max(0.01, 0.995 * epsilon) in a train call that trains
\* and stays as it is in every other step.
C14_EpsilonDecays ==
  [][/\ (trainCalls = 0 => epsilon = Million)
     /\ epsilon' <= epsilon
     /\ epsilon' >= Million \div 100
     /\ epsilon' = IF lastOp' = "DQNTrain"
                   THEN Max(Million \div 100, (epsilon * 995) \div 1000)
                   ELSE epsilon]_vars

\* C14 witness: a train call has just brought epsilon down to the floor.
C14_Witness ==
  /\ lastOp = "DQNTrain" /\ epsilon = EPSILON_END /\ trainCalls > 900

\* C15: a train call that leaves fewer than BATCH_SIZE transitions in the
\* buffer inserts what it was given and changes neither network, nor
\* epsilon, nor the train-call counter.
C15_SmallBufferSkips ==
  [][(TrainRan /\ Len(replayBuffer'.buffer) < BATCH_SIZE) =>
       /\ lastOp' = "DQNTrainSkip"
       /\ dqn' = dqn /\ epsilon' = epsilon /\ trainCalls' = trainCalls
       /\ Len(replayBuffer'.buffer) = Len(added')
       /\ replayBuffer'.buffer = added']_vars

\* C15 witness: a train call was skipped with one transition short of a batch.
C15_Witness ==
  /\ lastOp = "DQNTrainSkip"
  /\ Len(replayBuffer.buffer) = BATCH_SIZE - 1
  /\ trainCalls = 0 /\ epsilon = EPSILON_START /\ dqn = NewDQN

\* C16: the target parameters are always a value the online parameters have
\* had; a train call overwrites them with the online parameters when it
\* trains and its number is a multiple of TARGET_UPDATE_FREQ, and leaves
\* them as they are otherwise.
C16_TargetIsSnapshot ==
  [][/\ dqn'.targetModel \in snapshots'
     /\ TrainRan =>
          dqn'.targetModel =
            IF lastOp' = "DQNTrain" /\ trainCalls' % TARGET_UPDATE_FREQ = 0
            THEN dqn'.model ELSE dqn.targetModel]_vars

\* C16 witness: the tenth training call has just copied the trained online
\* parameters to the target network.
C16_Witness ==
  /\ lastOp = "DQNTrain" /\ trainCalls = TARGET_UPDATE_FREQ
  /\ dqn.model.steps = TARGET_UPDATE_FREQ * TRAIN_STEPS
  /\ dqn.targetModel = dqn.model

\* C17: right after a load that succeeded the target parameters are the
\* loaded online parameters.
C17_LoadSyncsTarget ==
  [][lastOp' = "DQNLoadOk" =>
       /\ dqn'.model.from \in Names /\ dqn'.model.steps = 0
       /\ dqn'.targetModel = dqn'.model]_vars

\* C17 witness: a model was loaded into an agent whose target network lagged
\* behind its trained online network.
C17_Witness ==
  /\ lastOp = "DQNLoadOk" /\ trainCalls = 1
  /\ dqn.model = Params("m1") /\ dqn.targetModel = Params("m1")

\* C18: a step reports done, with reward -10, exactly when the resulting
\* angle is below 70 or above 139 degrees or the resulting position is at or
\* beyond 2.4 on either side; otherwise the reward is above -1 and at most 5.
C18_RewardAndTermination ==
  [][lastOp' = "Step" =>
       LET degrees == 900 + env'.state.theta
           x == env'.state.x
           terminal == degrees < 700 \/ degrees > 1390 \/ x <= -240 \/ x >= 240
           r == stepOut'.reward
       IN /\ stepOut'.done = terminal
          /\ terminal => r = -10 * RewardUnit
          /\ ~terminal => (r > -RewardUnit /\ r <= 5 * RewardUnit)
          /\ (r = -10 * RewardUnit) = stepOut'.done]_vars

\* C18 witness: a step ended at exactly 70 degrees next to the right edge and
\* did not report done.
C18_Witness ==
  /\ lastOp = "Step" /\ Degrees(env.state.theta) = MinDegrees
  /\ env.state.x = X_THRESHOLD - 1
  /\ ~stepOut.done /\ stepOut.reward < RewardUnit

\* C19: the force of a step is the engine force of its action plus the sum
\* of the amounts applied since the previous step or reset, and the
\* accumulator is 0 right after the step.
C19_ForceConsumedOnce ==
  [][lastOp' = "Step" =>
       /\ stepOut'.force = (IF stepOut'.action = "right" THEN 20 ELSE -20)
                             + SumSeq(pushes)
       /\ env'.externalForce = 0]_vars

\* C19 witness: a step to the left used two pushes of 15 each.
C19_Witness ==
  /\ lastOp = "Step" /\ stepOut.action = "left"
  /\ stepOut.force = 2 * 10 * ForceMultiplier - FORCE_MAG
  /\ env.externalForce = 0 /\ pushes = <<>>

\* C20: right after reset every component of the state is within 0.05 of 0
\* (0.05 rad is 2.86 degrees) and the accumulator is 0.
C20_ResetSmallAndClean ==
  [][lastOp' = "Reset" =>
       /\ Abs(env'.state.x) <= 5 /\ Abs(env'.state.xDot) <= 5
       /\ Abs(env'.state.theta) <= 28 /\ Abs(env'.state.thetaDot) <= 5
       /\ env'.externalForce = 0]_vars

\* C20 witness: a reset has dropped a push that waited in the accumulator.
C20_Witness ==
  /\ lastOp = "Reset" /\ stepOut.action = "reset" /\ stepOut.force # 0
  /\ env.externalForce = 0 /\ env.state \in ResetStates

\* C21: from state (0,0,0,0) with zero external force, one step with action
\* right leaves the angle strictly negative, reports done = false and gives a
\* reward greater than 4.5.
C21_OneStepRight ==
  (calc.op = "step" /\ calc.state = Origin /\ calc.action = "right"
     /\ calc.externalForce = 0) =>
    /\ calc.next.theta < 0
    /\ ~calc.done
    /\ 2 * calc.reward > 9 * RewardUnit

\* C21 as amended: from state (0,0,0,0) with zero external force, one step
\* with action right leaves the angle at 0 (it is advanced with the angular
\* velocity from before the step) and makes the angular velocity strictly
\* negative, reports done = false and gives a reward greater than 4.5.
C21_OneStepRightAmended ==
  (calc.op = "step" /\ calc.state = Origin /\ calc.action = "right"
     /\ calc.externalForce = 0) =>
    /\ calc.next.theta = 0 /\ calc.next.thetaDot < 0
    /\ ~calc.done
    /\ 2 * calc.reward > 9 * RewardUnit

\* C21 witness: that step was taken, and the cart gained speed to the right.
C21_Witness ==
  /\ calc.op = "step" /\ calc.state = Origin /\ calc.action = "right"
  /\ calc.externalForce = 0 /\ calc.next.xDot > 0

\* C22: a tick that runs while manual mode is on executes at most one
\* environment step, whatever speed is selected.
C22_ManualTickOneStep ==
  [][(lastOp' = "Tick" /\ isManualMode) => envSteps' <= 1]_vars

\* C22 witness: a tick in manual mode has stepped the environment once and
\* the episode goes on.
C22_Witness ==
  /\ isManualMode /\ lastOp = "Tick" /\ envSteps = 1 /\ stepCountRef = 1

\* C28: a load replaces the agent's networks only when no training pass on
\* the agent is pending or in flight.
C28_LoadNeverOverlapsTrain ==
  [][lastOp' = "LoadOk" => passes = <<>>]_vars

\* C25: for every ratio r > 0 and advantage A the per-step surrogate
\* min(r*A, clip(r, 0.8, 1.2)*A) is at most 1.2*A when A >= 0 and at most
\* 0.8*A when A < 0.
C25_SurrogateBounded ==
  (calc.op = "surrogate" /\ calc.ratio > 0) =>
    /\ calc.advantage >= 0 => calc.out <= 120 * calc.advantage
    /\ calc.advantage < 0 => calc.out <= 80 * calc.advantage

\* C25 witness: a ratio above 1.2 with a positive advantage was clipped.
C25_Witness ==
  /\ calc.op = "surrogate" /\ calc.ratio > 120 /\ calc.advantage > 0
  /\ calc.out = 120 * calc.advantage

\* C26: the target of a transition with done = true is the reward alone,
\* whatever the target network outputs; with done = false it is the reward
\* plus 0.99 times the target network's value of an action that maximises
\* the online network's output.
C26_DoubleQTarget ==
  calc.op = "targetQ" =>
    IF calc.done THEN calc.out = 100 * calc.reward
    ELSE \E a \in 1..2 :
           /\ \A b \in 1..2 : calc.online[a] >= calc.online[b]
           /\ calc.out = 100 * calc.reward + 99 * calc.target[a]

\* C26 witness: a terminal transition whose next state the target network
\* values differently from 0, and prefers another action than the online one.
C26_Witness ==
  /\ calc.op = "targetQ" /\ calc.done
  /\ calc.online[1] > calc.online[2] /\ calc.target[1] < calc.target[2]
  /\ calc.target[1] # 0 /\ calc.out = 100 * calc.reward

\* C27: when a train call has finished, it has made 2 * EPOCHS updates, in
\* every epoch one of the actor and then one of the critic, and every update
\* used old probabilities, advantages and return targets computed from the
\* networks the agent had when the call was entered.
C27_FrozenThroughEpochs ==
  ppoCall.phase = "done" =>
    /\ Len(ppoCall.log) = 2 * EPOCHS
    /\ \A i \in 1..EPOCHS :
         /\ ppoCall.log[2 * i - 1].net = "actor"
         /\ ppoCall.log[2 * i - 1].oldActionProbs = ppoCall.entry.actor
         /\ ppoCall.log[2 * i - 1].advantages = ppoCall.entry.critic
         /\ ppoCall.log[2 * i].net = "critic"
         /\ ppoCall.log[2 * i].targets = ppoCall.entry.critic

\* C23: the rolling history of (episode, reward) pairs never grows beyond a
\* fixed maximum length, however many episodes complete
C23_HistoryBounded == rewardHistory <= HistoryLimit

\* C29: within one tick, stepping stops at the first step that ends an episode:
\* a step that ends an episode is the last step of its tick, so at most one
\* episode ends per tick and no step of the next episode runs in it, whether
\* or not training was triggered
C29_StopsAtEpisodeEnd ==
  \A i \in 1..Len(trail) : trail[i].ended => i = Len(trail)

\* a tick at a speed above 2 stopped after its second step, which ended the
\* episode without triggering training
C29_Witness ==
  /\ lastOp = "Tick"
  /\ Len(trail) = 2
  /\ LoopSpeed(isManualMode, simSpeed) > 2
  /\ trail[2].ended
  /\ passes = <<>>
  /\ pending.isTraining = NoUpd

\* what stepSimulation has to record of a step of the trail
RecordOf(t) == [state |-> t.before, nextState |-> t.after, done |-> t.ended]
RecordsOf(tr) ==
  LET kept == SelectSeq(tr, LAMBDA t : t.recorded)
  IN [i \in 1..Len(kept) |-> RecordOf(kept[i])]

\* the steps of a tick start from the environment's state, each differs from
\* the state before it, and each goes on from the state the one before left
\* (the reset state after the end of an episode); the environment is left in
\* the last of these states
TrailFollows(e, tr, f) ==
  /\ Len(tr) > 0 => tr[1].before = e.state
  /\ \A i \in 1..Len(tr) :
       /\ tr[i].after # tr[i].before
       /\ tr[i].ended => tr[i].after # RestState
       /\ (IF i < Len(tr) THEN tr[i + 1].before ELSE f.state)
            = (IF tr[i].ended THEN RestState ELSE tr[i].after)

\* C30: a tick appends, for each step it records, the environment's state just
\* before the step, the state just after it (for a step that ends an episode
\* the terminal state, not the state the reset produces) and a done flag that
\* is true whenever the episode ended there, the step ceiling included; the
\* transitions recorded earlier stay as they are, and any other operation
\* leaves the recorded transitions alone or drops them all
C30_RecordedAsStepped ==
  [][IF lastOp' = "Tick"
     THEN /\ TrailFollows(env, trail', env')
          /\ transitions' = transitions \o RecordsOf(trail')
     ELSE transitions' = transitions \/ transitions' = <<>>]_vars

\* the step ceiling ended the episode on a recorded step: the pole is up in
\* the recorded next state, the environment has been reset since, and the
\* transition recorded a tick earlier is still the first one
C30_Witness ==
  /\ lastOp = "Tick"
  /\ Len(transitions) = 2
  /\ transitions[1].nextState = transitions[2].state
  /\ ~transitions[1].done
  /\ transitions[2].done
  /\ transitions[2].nextState.theta = 0
  /\ transitions[2].nextState.thetaDot > MAX_STEPS_PER_EPISODE
  /\ env.state = RestState

====
